---- MODULE Spec2Model ----
(***************************************************************************)
(* Stage-gate state machine of the tech stack audit tool.                  *)
(*                                                                         *)
(* Models core/stage_gate_manager.py (AuditState, StageGateManager,        *)
(* load_audit_session) and the places of enhanced_run_pipeline_day2.py     *)
(* that write the manager's state.                                         *)
(*                                                                         *)
(* state is the AuditState held by the manager, file the session file of   *)
(* its audit_id (<<>> when absent, else <<content>>), now the clock, last  *)
(* the last call and its result, advanced the targets of the successful    *)
(* advances, peer the AuditState held by a second manager opened on the    *)
(* same audit_id (NoManager when there is none).                           *)
(*                                                                         *)
(* Python dicts are insertion ordered: a dict is a sequence of             *)
(* <<key, value>> pairs with distinct keys.  A key of stage_completion is  *)
(* <<"int", n>> for the Python int n and <<"str", n>> for the Python       *)
(* string str(n): the two are different dict keys in Python, and the JSON  *)
(* writer turns the first into the second.                                 *)
(***************************************************************************)
EXTENDS Integers, Sequences, FiniteSets, TLC

VARIABLES state, file, now, last, advanced, peer

vars == <<state, file, now, last, advanced, peer>>

-----------------------------------------------------------------------------
(* Bounds of the model *)

MaxTools == 2
MaxIntegrations == 2
MaxOpps == 4
MaxClock == 2
MaxRecovery == 3
MaxMatrixTools == 4

-----------------------------------------------------------------------------
(* class AuditStage(Enum) *)

DISCOVERY == 1
ASSESSMENT == 2
OPPORTUNITIES == 3
DELIVERY == 4

AuditStage == {DISCOVERY, ASSESSMENT, OPPORTUNITIES, DELIVERY}

\* datetime.now() when the manager is constructed
StartTime == 4

-----------------------------------------------------------------------------
(* Python dict as a sequence of <<key, value>> pairs *)

DictKeys(d) == {d[i][1] : i \in 1..Len(d)}

DictHas(d, k) == k \in DictKeys(d)

DictGet(d, k) == d[CHOOSE i \in 1..Len(d) : d[i][1] = k][2]

DictSet(d, k, v) ==
    IF DictHas(d, k)
    THEN [i \in 1..Len(d) |-> IF d[i][1] = k THEN <<k, v>> ELSE d[i]]
    ELSE Append(d, <<k, v>>)

DictValues(d) == [i \in 1..Len(d) |-> d[i][2]]

IntKey(n) == <<"int", n>>
StrKey(n) == <<"str", n>>

\* d1.update(d2) / {**d1, **d2} on records
Merge(r, extra) ==
    [f \in DOMAIN r \cup DOMAIN extra |->
        IF f \in DOMAIN extra THEN extra[f] ELSE r[f]]

RECURSIVE FlatMap(_, _)
FlatMap(Op(_), s) ==
    IF s = <<>> THEN <<>> ELSE Op(Head(s)) \o FlatMap(Op, Tail(s))

-----------------------------------------------------------------------------
(* Inputs of the operations *)

ToolNamePool == <<"Zoom", "Slack", "Outlook", "Redtail">>
ToolNames == {ToolNamePool[i] : i \in 1..MaxTools}

CompleteTool ==
    [category |-> "Communication", users |-> <<"All">>,
     criticality |-> "High", discovery_method |-> "manual"]

ToolInputs ==
    { CompleteTool,
      [category |-> "Communication", users |-> <<"All">>,
       criticality |-> "High"] }

IntegrationInputs ==
    { [source_tool |-> "Zoom", target_tool |-> "Slack",
       status |-> "healthy", integration_type |-> "api"],
      [source_tool |-> "Zoom", target_tool |-> "Slack"] }

ScoredOpp ==
    [name |-> "Sync", priority_score |-> 12, roi_estimate |-> 100,
     n8n_workflow |-> "wf"]

OppInputs ==
    { ScoredOpp,
      [name |-> "Alert", priority_score |-> 0, roi_estimate |-> 100,
       n8n_workflow |-> "wf"],
      [roi_estimate |-> 100, n8n_workflow |-> "wf"],
      [name |-> "Digest", priority_score |-> 7] }

-----------------------------------------------------------------------------
(* AuditState.to_dict, json.dump, json.load, AuditState.from_dict *)

isoformat(t) == <<"iso", t>>
fromisoformat(s) == s[2]

\* The fields of the dataclass AuditState
DataclassFields ==
    {"client_name", "audit_id", "current_stage", "stage_completion",
     "tool_inventory", "integrations", "automation_opportunities",
     "client_domain", "stakeholder_contacts", "created_at", "updated_at"}

\* asdict copies the fields of the dataclass and nothing else the object
\* carries; the stage becomes its number, the datetimes their ISO strings
to_dict(st) ==
    [f \in DataclassFields |->
        CASE f = "created_at" -> isoformat(st.created_at)
          [] f = "updated_at" -> isoformat(st.updated_at)
          [] OTHER -> st[f]]

\* json.dump writes every key of an object as a string, in dict order; an int
\* key n and a str key "n" of the same dict are both written as "n"
JsonKey(k) == StrKey(k[2])

json_dump(data) ==
    [data EXCEPT !.stage_completion =
        [i \in 1..Len(data.stage_completion) |->
            <<JsonKey(data.stage_completion[i][1]), data.stage_completion[i][2]>>]]

\* json.load builds the dict pair by pair: a repeated key keeps its first
\* position and takes the last value
RECURSIVE LoadPairs(_, _)
LoadPairs(pairs, d) ==
    IF pairs = <<>> THEN d
    ELSE LoadPairs(Tail(pairs), DictSet(d, Head(pairs)[1], Head(pairs)[2]))

json_load(text) ==
    [text EXCEPT !.stage_completion = LoadPairs(text.stage_completion, <<>>)]

from_dict(data) ==
    [data EXCEPT !.created_at = fromisoformat(data.created_at),
                 !.updated_at = fromisoformat(data.updated_at)]

-----------------------------------------------------------------------------
(* StageGateManager.load_or_create_state, fresh branch *)

\* variant: a new session starts with stage 1 already marked complete
NewState_stage_one_complete(t) ==
    [client_name |-> "Acme Wealth",
     audit_id |-> "audit_1",
     current_stage |-> DISCOVERY,
     stage_completion |-> <<<<IntKey(1), TRUE>>, <<IntKey(2), FALSE>>,
                            <<IntKey(3), FALSE>>, <<IntKey(4), FALSE>>>>,
     tool_inventory |-> <<>>,
     integrations |-> <<>>,
     automation_opportunities |-> <<>>,
     client_domain |-> "acme.com",
     stakeholder_contacts |-> <<>>,
     created_at |-> t,
     updated_at |-> t]

NewState(t) ==
    [client_name |-> "Acme Wealth",
     audit_id |-> "audit_1",
     current_stage |-> DISCOVERY,
     stage_completion |-> <<<<IntKey(1), FALSE>>, <<IntKey(2), FALSE>>,
                            <<IntKey(3), FALSE>>, <<IntKey(4), FALSE>>>>,
     tool_inventory |-> <<>>,
     integrations |-> <<>>,
     automation_opportunities |-> <<>>,
     client_domain |-> "acme.com",
     stakeholder_contacts |-> <<>>,
     created_at |-> t,
     updated_at |-> t]

-----------------------------------------------------------------------------
(* Gate validation.  A gate returns [ok, messages]; a message is           *)
(* <<text, name, fields>>: the fixed text of the f-string, the tool or     *)
(* opportunity name it interpolates ("" when none) and the joined list of  *)
(* missing fields.                                                         *)

Msg(text, name, fields) == <<text, name, fields>>

MissingFields(required, rec) ==
    SelectSeq(required, LAMBDA f : f \notin DOMAIN rec)

required_fields == <<"category", "users", "discovery_method">>

ToolIssues(entry) ==
    LET missing_fields == MissingFields(required_fields, entry[2])
    IN  IF missing_fields # <<>>
        THEN <<Msg("missing", entry[1], missing_fields)>>
        ELSE <<>>

\* variant: discovery_method is not among the required fields
validate_discovery_gate_two_fields(st) ==
    LET Issues(entry) ==
            IF MissingFields(<<"category", "users">>, entry[2]) # <<>>
            THEN <<Msg("missing", entry[1],
                       MissingFields(<<"category", "users">>, entry[2]))>>
            ELSE <<>>
    IN  IF Len(st.tool_inventory) = 0
        THEN [ok |-> FALSE, messages |-> <<Msg("No tools discovered", "", <<>>)>>]
        ELSE IF FlatMap(Issues, st.tool_inventory) = <<>>
             THEN [ok |-> TRUE,
                   messages |-> <<Msg("All tools have required metadata", "", <<>>)>>]
             ELSE [ok |-> FALSE, messages |-> FlatMap(Issues, st.tool_inventory)]

validate_discovery_gate(st) ==
    IF Len(st.tool_inventory) = 0
    THEN [ok |-> FALSE, messages |-> <<Msg("No tools discovered", "", <<>>)>>]
    ELSE LET issues == FlatMap(ToolIssues, st.tool_inventory)
         IN  IF issues = <<>>
             THEN [ok |-> TRUE,
                   messages |-> <<Msg("All tools have required metadata", "", <<>>)>>]
             ELSE [ok |-> FALSE, messages |-> issues]

required_integration_fields ==
    <<"source_tool", "target_tool", "status", "integration_type">>

IntegrationIssues(integration) ==
    LET missing_fields == MissingFields(required_integration_fields, integration)
    IN  IF missing_fields # <<>>
        THEN <<Msg("Integration record missing", "", missing_fields)>>
        ELSE <<>>

\* variant: the check for an empty integration list is left out
validate_assessment_gate_no_empty_check(st) ==
    IF Len(st.tool_inventory) < 2
    THEN [ok |-> FALSE,
          messages |-> <<Msg("Need at least 2 tools for integration analysis", "", <<>>)>>]
    ELSE IF FlatMap(IntegrationIssues, st.integrations) = <<>>
         THEN [ok |-> TRUE,
               messages |-> <<Msg("Integration analysis complete", "", <<>>)>>]
         ELSE [ok |-> FALSE,
               messages |-> FlatMap(IntegrationIssues, st.integrations)]

validate_assessment_gate(st) ==
    IF Len(st.tool_inventory) < 2
    THEN [ok |-> FALSE,
          messages |-> <<Msg("Need at least 2 tools for integration analysis", "", <<>>)>>]
    ELSE LET issues ==
                (IF Len(st.integrations) = 0
                 THEN <<Msg("No integrations analyzed", "", <<>>)>>
                 ELSE <<>>)
                \o FlatMap(IntegrationIssues, st.integrations)
         IN  IF issues = <<>>
             THEN [ok |-> TRUE,
                   messages |-> <<Msg("Integration analysis complete", "", <<>>)>>]
             ELSE [ok |-> FALSE, messages |-> issues]

required_opp_fields == <<"name", "priority_score", "roi_estimate", "n8n_workflow">>

\* opp.get('name', 'Unknown') and opp.get('priority_score', 0)
OppName(opp) == IF "name" \in DOMAIN opp THEN opp.name ELSE "Unknown"
\* variant: opp.get('priority_score', 1), an absent score counts as scored
OppScore_default_one(opp) ==
    IF "priority_score" \in DOMAIN opp THEN opp.priority_score ELSE 1

OppScore(opp) ==
    IF "priority_score" \in DOMAIN opp THEN opp.priority_score ELSE 0

OppIssues(opp) ==
    LET missing_fields == MissingFields(required_opp_fields, opp)
    IN  (IF missing_fields # <<>>
         THEN <<Msg("missing", OppName(opp), missing_fields)>>
         ELSE <<>>)
        \o
        (IF OppScore(opp) = 0
         THEN <<Msg("not properly scored", OppName(opp), <<>>)>>
         ELSE <<>>)

\* variant: the threshold is 2 opportunities instead of 3
validate_opportunities_gate_two(st) ==
    LET issues ==
            (IF Len(st.automation_opportunities) < 2
             THEN <<Msg("Need at least 3 automation opportunities identified", "", <<>>)>>
             ELSE <<>>)
            \o FlatMap(OppIssues, st.automation_opportunities)
    IN  IF issues = <<>>
        THEN [ok |-> TRUE,
              messages |-> <<Msg("Automation roadmap complete", "", <<>>)>>]
        ELSE [ok |-> FALSE, messages |-> issues]

validate_opportunities_gate(st) ==
    LET issues ==
            (IF Len(st.automation_opportunities) < 3
             THEN <<Msg("Need at least 3 automation opportunities identified", "", <<>>)>>
             ELSE <<>>)
            \o FlatMap(OppIssues, st.automation_opportunities)
    IN  IF issues = <<>>
        THEN [ok |-> TRUE,
              messages |-> <<Msg("Automation roadmap complete", "", <<>>)>>]
        ELSE [ok |-> FALSE, messages |-> issues]

check_stage_gate(st, target_stage) ==
    CASE target_stage = DISCOVERY ->
            [ok |-> TRUE, messages |-> <<Msg("Starting discovery", "", <<>>)>>]
      [] target_stage = ASSESSMENT -> validate_discovery_gate(st)
      [] target_stage = OPPORTUNITIES -> validate_assessment_gate(st)
      [] target_stage = DELIVERY -> validate_opportunities_gate(st)
      [] OTHER -> [ok |-> FALSE, messages |-> <<Msg("Unknown stage", "", <<>>)>>]

-----------------------------------------------------------------------------
(* Operations of StageGateManager.  Each handler is a function of the     *)
(* state it finds: it returns the state it leaves in memory, whether it   *)
(* called save_state, its return value and the messages it printed.       *)

MarkAdvanced(st, target_stage) ==
    [st EXCEPT
        !.current_stage = target_stage,
        !.stage_completion =
            IF target_stage > 1
            THEN DictSet(@, IntKey(target_stage - 1), TRUE)
            ELSE @]

\* variant: save_state is called on the failure branch too
advance_stage_saves_on_failure(st, target_stage, force) ==
    LET gate == check_stage_gate(st, target_stage)
    IN  IF gate.ok \/ force
        THEN [state |-> MarkAdvanced(st, target_stage),
              save |-> TRUE, ok |-> TRUE, messages |-> gate.messages]
        ELSE [state |-> st, save |-> TRUE, ok |-> FALSE,
              messages |-> gate.messages]

\* variant: the previous stage is not marked complete
advance_stage_no_completion(st, target_stage, force) ==
    LET gate == check_stage_gate(st, target_stage)
    IN  IF gate.ok \/ force
        THEN [state |-> [st EXCEPT !.current_stage = target_stage],
              save |-> TRUE, ok |-> TRUE, messages |-> gate.messages]
        ELSE [state |-> st, save |-> FALSE, ok |-> FALSE,
              messages |-> gate.messages]

\* variant: force is ignored
advance_stage_ignores_force(st, target_stage, force) ==
    LET gate == check_stage_gate(st, target_stage)
    IN  IF gate.ok
        THEN [state |-> MarkAdvanced(st, target_stage),
              save |-> TRUE, ok |-> TRUE, messages |-> gate.messages]
        ELSE [state |-> st, save |-> FALSE, ok |-> FALSE,
              messages |-> gate.messages]

\* variant: an advance to DISCOVERY starts over and clears the completion
\* flags
advance_stage_restart_clears(st, target_stage, force) ==
    LET gate == check_stage_gate(st, target_stage)
    IN  IF gate.ok \/ force
        THEN [state |->
                [st EXCEPT
                    !.current_stage = target_stage,
                    !.stage_completion =
                        IF target_stage > 1
                        THEN DictSet(@, IntKey(target_stage - 1), TRUE)
                        ELSE [i \in 1..Len(@) |-> <<@[i][1], FALSE>>]],
              save |-> TRUE, ok |-> TRUE, messages |-> gate.messages]
        ELSE [state |-> st, save |-> FALSE, ok |-> FALSE,
              messages |-> gate.messages]

advance_stage(st, target_stage, force) ==
    LET gate == check_stage_gate(st, target_stage)
    IN  IF gate.ok \/ force
        THEN [state |->
                [st EXCEPT
                    !.current_stage = target_stage,
                    !.stage_completion =
                        IF target_stage > 1
                        THEN DictSet(@, IntKey(target_stage - 1), TRUE)
                        ELSE @],
              save |-> TRUE, ok |-> TRUE, messages |-> gate.messages]
        ELSE [state |-> st, save |-> FALSE, ok |-> FALSE,
              messages |-> gate.messages]

\* variant: the inventory is a list and every call appends
add_tool_appends(st, tool_name, tool_data) ==
    [st EXCEPT !.tool_inventory = Append(@, <<tool_name, tool_data>>)]

add_tool(st, tool_name, tool_data) ==
    [st EXCEPT !.tool_inventory = DictSet(@, tool_name, tool_data)]

add_integration(st, integration_data) ==
    [st EXCEPT !.integrations = Append(@, integration_data)]

\* variant: an opportunity whose name is already present is not added again
add_automation_opportunity_dedup(st, opportunity_data) ==
    IF \E i \in 1..Len(st.automation_opportunities) :
            OppName(st.automation_opportunities[i]) = OppName(opportunity_data)
    THEN st
    ELSE [st EXCEPT !.automation_opportunities = Append(@, opportunity_data)]

add_automation_opportunity(st, opportunity_data) ==
    [st EXCEPT !.automation_opportunities = Append(@, opportunity_data)]

\* variant: the file is written before updated_at is stamped
save_state_writes_before_stamp(st) ==
    /\ now < StartTime + MaxClock
    /\ now' = now + 1
    /\ state' = [st EXCEPT !.updated_at = now + 1]
    /\ file' = <<json_dump(to_dict(st))>>

\* variant: the state is written without stamping updated_at
save_state_no_stamp(st) ==
    /\ now < StartTime + MaxClock
    /\ now' = now + 1
    /\ state' = st
    /\ file' = <<json_dump(to_dict(st))>>

\* save_state: stamp updated_at with the clock, write the whole state
save_state(st) ==
    LET stamped == [st EXCEPT !.updated_at = now + 1]
    IN  /\ now < StartTime + MaxClock
        /\ now' = now + 1
        /\ state' = stamped
        /\ file' = <<json_dump(to_dict(stamped))>>

\* The last call and what came back: its arguments (target, force, arg), its
\* return value (ok), what it printed or returned besides (messages) and the
\* exception that left it, if any (error)
Call(op, target, force, ok, messages) ==
    [op |-> op, target |-> target, force |-> force, ok |-> ok,
     messages |-> messages, arg |-> <<>>, error |-> "none"]

CallArg(op, arg) ==
    [op |-> op, target |-> 0, force |-> FALSE, ok |-> TRUE,
     messages |-> <<>>, arg |-> arg, error |-> "none"]

AdvanceStage(target_stage, force) ==
    LET r == advance_stage(state, target_stage, force)
    IN  /\ IF r.save
           THEN save_state(r.state)
           ELSE /\ state' = r.state
                /\ UNCHANGED <<file, now>>
        /\ last' = Call("advance_stage", target_stage, force, r.ok, r.messages)
        /\ advanced' = IF r.ok THEN advanced \cup {target_stage} ELSE advanced
        /\ UNCHANGED peer

AddTool(tool_name, tool_data) ==
    /\ save_state(add_tool(state, tool_name, tool_data))
    /\ last' = CallArg("add_tool", <<tool_name, tool_data>>)
    /\ UNCHANGED <<advanced, peer>>

AddIntegration(integration_data) ==
    /\ Len(state.integrations) < MaxIntegrations
    /\ save_state(add_integration(state, integration_data))
    /\ last' = CallArg("add_integration", <<integration_data>>)
    /\ UNCHANGED <<advanced, peer>>

AddAutomationOpportunity(opportunity_data) ==
    /\ Len(state.automation_opportunities) < MaxOpps
    /\ save_state(add_automation_opportunity(state, opportunity_data))
    /\ last' = CallArg("add_automation_opportunity", <<opportunity_data>>)
    /\ UNCHANGED <<advanced, peer>>

\* variant: the gate check saves the state
CheckStageGate_saves(target_stage) ==
    LET gate == check_stage_gate(state, target_stage)
    IN  /\ last' = Call("check_stage_gate", target_stage, FALSE, gate.ok, gate.messages)
        /\ save_state(state)
        /\ UNCHANGED <<advanced, peer>>

\* check_stage_gate called on its own: returns (can_advance, messages)
CheckStageGate(target_stage) ==
    LET gate == check_stage_gate(state, target_stage)
    IN  /\ last' = Call("check_stage_gate", target_stage, FALSE, gate.ok, gate.messages)
        /\ UNCHANGED <<state, file, now, advanced, peer>>

\* Tool names grouped by tool_data.get(field, 'Unknown'), as a dict from
\* group to the list of names in inventory order
RECURSIVE GroupTools(_, _, _)
GroupTools(inventory, field, groups) ==
    IF inventory = <<>> THEN groups
    ELSE LET tool_name == Head(inventory)[1]
             tool_data == Head(inventory)[2]
             group == IF field \in DOMAIN tool_data THEN tool_data[field] ELSE "Unknown"
             before == IF DictHas(groups, group) THEN DictGet(groups, group) ELSE <<>>
         IN  GroupTools(Tail(inventory), field,
                        DictSet(groups, group, Append(before, tool_name)))

_group_tools_by_category(st) == GroupTools(st.tool_inventory, "category", <<>>)

_group_tools_by_criticality(st) == GroupTools(st.tool_inventory, "criticality", <<>>)

\* integration.get('status', 'unknown').lower(), counted under its own key
\* when that is one of the four, under 'missing' otherwise
HealthKey(integration) ==
    LET status == IF "status" \in DOMAIN integration THEN integration.status ELSE "unknown"
    IN  IF status \in {"healthy", "degraded", "broken", "missing"}
        THEN status ELSE "missing"

_summarize_integration_health(st) ==
    [k \in {"healthy", "degraded", "broken", "missing"} |->
        Cardinality({i \in 1..Len(st.integrations) : HealthKey(st.integrations[i]) = k})]

RECURSIVE SumRoi(_)
SumRoi(opps) ==
    IF opps = <<>> THEN 0
    ELSE (IF "roi_estimate" \in DOMAIN Head(opps) THEN Head(opps).roi_estimate ELSE 0)
         + SumRoi(Tail(opps))

export_summary(st) ==
    [audit_info |->
        [client_name |-> st.client_name,
         audit_id |-> st.audit_id,
         current_stage |-> st.current_stage,
         completion_status |-> st.stage_completion],
     inventory_summary |->
        [total_tools |-> Len(st.tool_inventory),
         tools_by_category |-> _group_tools_by_category(st),
         tools_by_criticality |-> _group_tools_by_criticality(st)],
     integration_summary |->
        [total_integrations |-> Len(st.integrations),
         integration_health |-> _summarize_integration_health(st)],
     automation_summary |->
        [total_opportunities |-> Len(st.automation_opportunities),
         high_priority_count |->
            Len(SelectSeq(st.automation_opportunities,
                          LAMBDA o : OppScore(o) >= 12)),
         total_estimated_roi |-> SumRoi(st.automation_opportunities)]]

ExportSummary ==
    /\ last' = Call("export_summary", 0, FALSE, TRUE, <<export_summary(state)>>)
    /\ UNCHANGED <<state, file, now, advanced, peer>>

\* A call left by an exception: no return value
Raised(op, target, force, arg, error) ==
    [op |-> op, target |-> target, force |-> force, ok |-> FALSE,
     messages |-> <<>>, arg |-> arg, error |-> error]

\* What is in a session file that does not hold a session: the text cut
\* off by a write that failed half way (json.load raises on it)
Truncated == [truncated |-> TRUE]

json_parses(text) == "truncated" \notin DOMAIN text

\* AuditState.from_dict raises when a field is missing or unexpected
\* (cls(**data)) or the stage number is not one of AuditStage
from_dict_raises(data) ==
    \/ DOMAIN data # DOMAIN NewState(0)
    \/ data.current_stage \notin AuditStage

\* variant: a file whose stage number is unknown is loaded with the stage
\* reset to DISCOVERY and the stored collections kept
load_or_create_state_salvages(f, client_name, client_domain, t) ==
    IF f # <<>> /\ json_parses(f[1])
                /\ DOMAIN json_load(f[1]) = DOMAIN NewState(0)
    THEN [from_dict(json_load(f[1])) EXCEPT
            !.current_stage = IF @ \in AuditStage THEN @ ELSE DISCOVERY]
    ELSE [NewState(t) EXCEPT !.client_name = client_name,
                             !.client_domain = client_domain]

\* StageGateManager.load_or_create_state: the stored state when the file
\* exists and loads; a new state when there is no file and also, the
\* exception being caught, when the file does not load
load_or_create_state(f, client_name, client_domain, t) ==
    IF f # <<>> /\ json_parses(f[1]) /\ ~from_dict_raises(json_load(f[1]))
    THEN from_dict(json_load(f[1]))
    ELSE [NewState(t) EXCEPT !.client_name = client_name,
                             !.client_domain = client_domain]

\* load_audit_session(audit_id): reads client_name from the file, then
\* builds a manager on it
LoadAuditSession ==
    /\ IF file = <<>>
       THEN /\ last' = Raised("load_audit_session", 0, FALSE, <<>>, "FileNotFoundError")
            /\ UNCHANGED state
       ELSE IF ~json_parses(file[1])
       THEN /\ last' = Raised("load_audit_session", 0, FALSE, <<>>, "JSONDecodeError")
            /\ UNCHANGED state
       ELSE IF "client_name" \notin DOMAIN file[1]
       THEN /\ last' = Raised("load_audit_session", 0, FALSE, <<>>, "KeyError")
            /\ UNCHANGED state
       ELSE /\ state' = load_or_create_state(file, file[1].client_name, "None", now)
            /\ last' = Call("load_audit_session", 0, FALSE, TRUE, <<>>)
    /\ UNCHANGED <<file, now, advanced, peer>>

\* StageGateManager(client_name, audit_id) on the audit_id of this session
OpenManager ==
    /\ state' = load_or_create_state(file, "Acme Wealth", "acme.com", now)
    /\ last' = Call("open_manager", 0, FALSE, TRUE, <<>>)
    /\ UNCHANGED <<file, now, advanced, peer>>

-----------------------------------------------------------------------------
(* The same operations when writing the session file fails.  save_state   *)
(* stamps updated_at first; mkdir or open raising leaves the file as it   *)
(* was, json.dump or the write raising leaves it cut off.  Nothing in     *)
(* save_state or in the operations catches the exception.                 *)

save_state_fails(st) ==
    /\ now < StartTime + MaxClock
    /\ now' = now + 1
    /\ state' = [st EXCEPT !.updated_at = now + 1]
    /\ file' \in {file, <<Truncated>>}

\* variant: save_state catches the exception and the call returns normally
WriteFailed_swallowed(call) == call

\* What the caller of an operation gets when save_state raised in it
WriteFailed(call) ==
    Raised(call.op, call.target, call.force, call.arg, "OSError")

AdvanceStageWriteFails(target_stage, force) ==
    LET r == advance_stage(state, target_stage, force)
    IN  /\ r.save
        /\ save_state_fails(r.state)
        /\ last' = WriteFailed(Call("advance_stage", target_stage, force, r.ok, r.messages))
        /\ UNCHANGED <<advanced, peer>>

AddToolWriteFails(tool_name, tool_data) ==
    /\ save_state_fails(add_tool(state, tool_name, tool_data))
    /\ last' = WriteFailed(CallArg("add_tool", <<tool_name, tool_data>>))
    /\ UNCHANGED <<advanced, peer>>

AddIntegrationWriteFails(integration_data) ==
    /\ Len(state.integrations) < MaxIntegrations
    /\ save_state_fails(add_integration(state, integration_data))
    /\ last' = WriteFailed(CallArg("add_integration", <<integration_data>>))
    /\ UNCHANGED <<advanced, peer>>

AddAutomationOpportunityWriteFails(opportunity_data) ==
    /\ Len(state.automation_opportunities) < MaxOpps
    /\ save_state_fails(add_automation_opportunity(state, opportunity_data))
    /\ last' = WriteFailed(CallArg("add_automation_opportunity", <<opportunity_data>>))
    /\ UNCHANGED <<advanced, peer>>

\* EnhancedAuditPipelineDay2.execute_delivery_stage_enhanced
execute_delivery_stage_enhanced(st) ==
    IF st.current_stage # DELIVERY
    THEN [state |-> st, save |-> FALSE, ok |-> FALSE]
    ELSE [state |-> [st EXCEPT !.stage_completion = DictSet(@, IntKey(4), TRUE)],
          save |-> TRUE, ok |-> TRUE]

ExecuteDeliveryStage ==
    LET r == execute_delivery_stage_enhanced(state)
    IN  /\ IF r.save
           THEN save_state(r.state)
           ELSE /\ state' = r.state
                /\ UNCHANGED <<file, now>>
        /\ last' = Call("execute_delivery_stage_enhanced", 0, FALSE, r.ok, <<>>)
        /\ UNCHANGED <<advanced, peer>>

\* A session is either new or opened on the file that an earlier manager of
\* the same audit_id left: here a session created at time 0 that saved two
\* tools and two opportunities, one save per clock tick.
StoredSession ==
    LET s1 == add_tool(NewState(0), "Zoom", CompleteTool)
        s2 == add_tool(s1, "Slack", CompleteTool)
        s3 == add_automation_opportunity(s2, ScoredOpp)
        s4 == add_automation_opportunity(s3, ScoredOpp)
    IN  json_dump(to_dict([s4 EXCEPT !.updated_at = StartTime]))

NoCall == Call("init", 0, FALSE, TRUE, <<>>)

\* No second manager is open on the session file
NoManager == <<>>

Init ==
    /\ now = StartTime
    /\ \/ /\ file = <<>>
          /\ state = NewState(StartTime)
       \/ /\ file = <<StoredSession>>
          /\ state = from_dict(json_load(StoredSession))
    /\ last = NoCall
    /\ advanced = {}
    /\ peer = NoManager

Next ==
    \/ \E target_stage \in AuditStage, force \in BOOLEAN :
            AdvanceStage(target_stage, force)
    \/ \E tool_name \in ToolNames, tool_data \in ToolInputs :
            AddTool(tool_name, tool_data)
    \/ \E integration_data \in IntegrationInputs :
            AddIntegration(integration_data)
    \/ \E opportunity_data \in OppInputs :
            AddAutomationOpportunity(opportunity_data)
    \/ LoadAuditSession
    \/ ExecuteDeliveryStage
    \/ \E target_stage \in AuditStage : CheckStageGate(target_stage)
    \/ ExportSummary

Spec == Init /\ [][Next]_vars

\* A session file written with a stage number that AuditStage does not have
BadStageSession == [StoredSession EXCEPT !.current_stage = 9]

\* Sessions on a disk that can fail: the session file found at construction
\* may also be one that does not load, and every write may fail
InitFaults ==
    /\ now = StartTime
    /\ file \in {<<>>, <<StoredSession>>, <<BadStageSession>>}
    /\ state = load_or_create_state(file, "Acme Wealth", "acme.com", StartTime)
    /\ last = NoCall
    /\ advanced = {}
    /\ peer = NoManager

NextFaults ==
    \/ \E target_stage \in AuditStage, force \in BOOLEAN :
            AdvanceStage(target_stage, force)
    \/ \E tool_name \in ToolNames, tool_data \in ToolInputs :
            AddTool(tool_name, tool_data)
    \/ \E integration_data \in IntegrationInputs :
            AddIntegration(integration_data)
    \/ \E opportunity_data \in OppInputs :
            AddAutomationOpportunity(opportunity_data)
    \/ \E target_stage \in AuditStage, force \in BOOLEAN :
            AdvanceStageWriteFails(target_stage, force)
    \/ \E tool_name \in ToolNames, tool_data \in ToolInputs :
            AddToolWriteFails(tool_name, tool_data)
    \/ \E integration_data \in IntegrationInputs :
            AddIntegrationWriteFails(integration_data)
    \/ \E opportunity_data \in OppInputs :
            AddAutomationOpportunityWriteFails(opportunity_data)
    \/ LoadAuditSession
    \/ OpenManager

SpecFaults == InitFaults /\ [][NextFaults]_vars

-----------------------------------------------------------------------------
(* Two managers constructed on the same audit_id.  Each one loaded the     *)
(* session file in its constructor and from then on works on its own copy  *)
(* in memory; save_state of either writes that copy over the file.         *)

\* A call made on the second manager
ByPeer(call) ==
    [op |-> call.op, target |-> call.target, force |-> call.force,
     ok |-> call.ok, messages |-> call.messages, arg |-> call.arg,
     error |-> call.error, manager |-> "peer"]

\* variant: save_state leaves a file alone that was stamped after the state
\* in memory was
save_state_peer_checks_version(st) ==
    IF file # <<>> /\ fromisoformat(file[1].updated_at) > st.updated_at
    THEN UNCHANGED <<peer, file, now>>
    ELSE /\ now < StartTime + MaxClock
         /\ now' = now + 1
         /\ peer' = [st EXCEPT !.updated_at = now + 1]
         /\ file' = <<json_dump(to_dict([st EXCEPT !.updated_at = now + 1]))>>

\* save_state of the second manager
save_state_peer(st) ==
    LET stamped == [st EXCEPT !.updated_at = now + 1]
    IN  /\ now < StartTime + MaxClock
        /\ now' = now + 1
        /\ peer' = stamped
        /\ file' = <<json_dump(to_dict(stamped))>>

PeerAdvanceStage(target_stage, force) ==
    LET r == advance_stage(peer, target_stage, force)
    IN  /\ IF r.save
           THEN save_state_peer(r.state)
           ELSE /\ peer' = r.state
                /\ UNCHANGED <<file, now>>
        /\ last' = ByPeer(Call("advance_stage", target_stage, force, r.ok, r.messages))
        /\ UNCHANGED <<state, advanced>>

PeerAddTool(tool_name, tool_data) ==
    /\ save_state_peer(add_tool(peer, tool_name, tool_data))
    /\ last' = ByPeer(CallArg("add_tool", <<tool_name, tool_data>>))
    /\ UNCHANGED <<state, advanced>>

PeerAddIntegration(integration_data) ==
    /\ Len(peer.integrations) < MaxIntegrations
    /\ save_state_peer(add_integration(peer, integration_data))
    /\ last' = ByPeer(CallArg("add_integration", <<integration_data>>))
    /\ UNCHANGED <<state, advanced>>

PeerAddAutomationOpportunity(opportunity_data) ==
    /\ Len(peer.automation_opportunities) < MaxOpps
    /\ save_state_peer(add_automation_opportunity(peer, opportunity_data))
    /\ last' = ByPeer(CallArg("add_automation_opportunity", <<opportunity_data>>))
    /\ UNCHANGED <<state, advanced>>

InitTwoManagers ==
    /\ now = StartTime
    /\ file \in {<<>>, <<StoredSession>>}
    /\ state = load_or_create_state(file, "Acme Wealth", "acme.com", StartTime)
    /\ peer = load_or_create_state(file, "Acme Wealth", "acme.com", StartTime)
    /\ last = NoCall
    /\ advanced = {}

NextTwoManagers ==
    \/ \E target_stage \in AuditStage, force \in BOOLEAN :
            AdvanceStage(target_stage, force)
    \/ \E tool_name \in ToolNames, tool_data \in ToolInputs :
            AddTool(tool_name, tool_data)
    \/ \E integration_data \in IntegrationInputs :
            AddIntegration(integration_data)
    \/ \E opportunity_data \in OppInputs :
            AddAutomationOpportunity(opportunity_data)
    \/ \E target_stage \in AuditStage, force \in BOOLEAN :
            PeerAdvanceStage(target_stage, force)
    \/ \E tool_name \in ToolNames, tool_data \in ToolInputs :
            PeerAddTool(tool_name, tool_data)
    \/ \E integration_data \in IntegrationInputs :
            PeerAddIntegration(integration_data)
    \/ \E opportunity_data \in OppInputs :
            PeerAddAutomationOpportunity(opportunity_data)

SpecTwoManagers == InitTwoManagers /\ [][NextTwoManagers]_vars

-----------------------------------------------------------------------------
(* EnhancedAuditPipelineDay2: the four stage steps and the complete run.    *)
(* What the discovery engine, the integration health checker and the       *)
(* opportunity engine answer is an input of the step.  A step is a         *)
(* function of the state it finds: it returns the state it leaves in       *)
(* memory, whether it called save_state, its return value and what it      *)
(* printed.  A step saves several times; every save writes the whole       *)
(* state, so the file after the step is the one of its last save, and the  *)
(* clock is read once for the step.                                        *)

\* A row of the inventory CSV as execute_discovery_stage turns it into a
\* tool record
CsvTool ==
    [category |-> "Communication", users |-> <<"All">>,
     criticality |-> "High", discovery_method |-> "manual_inventory"]

CsvInputs == { <<>>, <<<<"Zoom", CsvTool>>, <<"Slack", CsvTool>>>> }

\* Tools the domain analysis finds
DiscoveredInputs == { <<>>, <<"Outlook">> }

\* Opportunities the opportunity engine generates, as the step turns them
\* into records
EngineOpp ==
    [name |-> "Sync", priority_score |-> 12, roi_estimate |-> 100,
     implementation_effort |-> "low",
     n8n_workflow |-> [name |-> "wf", trigger_type |-> "webhook",
                       description |-> "sync"]]

OppBatches == { <<>>, <<EngineOpp, EngineOpp, EngineOpp>> }

\* DiscoveryEngine.enhance_tool_inventory: the record of a tool found by
\* the domain analysis
AutoDiscovered(tool_name) ==
    [category |-> "Auto-discovered", version |-> "unknown",
     users |-> <<"auto-detected">>, criticality |-> "Unknown",
     discovery_method |-> "domain_analysis",
     discovery_details |-> [tool |-> tool_name], provider |-> "Unknown"]

RECURSIVE AddDiscovered(_, _)
AddDiscovered(inventory, discovered) ==
    IF discovered = <<>> THEN inventory
    ELSE AddDiscovered(
            IF DictHas(inventory, Head(discovered))
            THEN inventory
            ELSE Append(inventory, <<Head(discovered), AutoDiscovered(Head(discovered))>>),
            Tail(discovered))

\* Discovered tools are added under names not yet present (no API answers),
\* then every record without last_discovery gets the time
enhance_tool_inventory(inventory, discovered, t) ==
    LET enhanced == AddDiscovered(inventory, discovered)
    IN  [i \in 1..Len(enhanced) |->
            <<enhanced[i][1],
              IF "last_discovery" \in DOMAIN enhanced[i][2]
              THEN enhanced[i][2]
              ELSE Merge(enhanced[i][2], [last_discovery |-> isoformat(t)])>>]

\* DiscoveryEngine.analyze_tool_versions: every record, with version_analysis
analyze_tool_versions(inventory) ==
    [i \in 1..Len(inventory) |->
        <<inventory[i][1],
          Merge(inventory[i][2],
                [version_analysis |-> [comparison |-> [status |-> "unknown"]]])>>]

\* analyze_automation_features: automation_features on the tools for which
\* features were found
analyze_automation_features(inventory, features) ==
    [i \in 1..Len(inventory) |->
        <<inventory[i][1],
          IF features
          THEN Merge(inventory[i][2], [automation_features |-> [features_found |-> 1]])
          ELSE inventory[i][2]>>]

RECURSIVE AddTools(_, _)
AddTools(st, rows) ==
    IF rows = <<>> THEN st
    ELSE AddTools(add_tool(st, Head(rows)[1], Head(rows)[2]), Tail(rows))

\* variant: the step does not look at the current stage
execute_discovery_stage_unguarded(st, csv, discovered, features, t) ==
    LET s1 == AddTools(st, csv)
        s3 == [s1 EXCEPT !.tool_inventory =
                 analyze_automation_features(analyze_tool_versions(@), features)]
        gate == check_stage_gate(s3, ASSESSMENT)
    IN  [state |-> s3, save |-> TRUE, ok |-> gate.ok, messages |-> gate.messages]

execute_discovery_stage(st, csv, discovered, features, t) ==
    IF st.current_stage # DISCOVERY
    THEN [state |-> st, save |-> FALSE, ok |-> FALSE,
          messages |-> <<Msg("Not in Discovery stage", "", <<>>)>>]
    ELSE LET s1 == AddTools(st, csv)
             s2 == IF s1.client_domain # "None"
                   THEN [s1 EXCEPT !.tool_inventory =
                            enhance_tool_inventory(@, discovered, t)]
                   ELSE s1
             s3 == [s2 EXCEPT !.tool_inventory = analyze_tool_versions(@)]
             s4 == [s3 EXCEPT !.tool_inventory =
                      analyze_automation_features(@, features)]
             gate == check_stage_gate(s4, ASSESSMENT)
         IN  [state |-> s4, save |-> TRUE, ok |-> gate.ok,
              messages |-> gate.messages]

\* A tool name as the list of its parts; the names of the model are one part
Tokens(tool_name) == <<tool_name>>

\* The key of an assessment, f"{source_tool}->{target_tool}"
ArrowKey(source, target) == source \o <<"->">> \o target

\* for i, source_tool in enumerate(tools): for j, target_tool in
\* enumerate(tools): if i < j
RECURSIVE PairsFrom(_, _, _)
PairsFrom(tools, i, j) ==
    IF i > Len(tools) THEN <<>>
    ELSE IF j > Len(tools) THEN PairsFrom(tools, i + 1, 1)
    ELSE (IF i < j THEN <<<<tools[i], tools[j]>>>> ELSE <<>>)
         \o PairsFrom(tools, i, j + 1)

\* The assessment that assess_integration_health returns for a pair
Assessment(source_tool, target_tool) ==
    [source_tool |-> source_tool, target_tool |-> target_tool,
     status |-> "missing", integration_type |-> "none", health_score |-> 0]

RECURSIVE CollectAssessments(_, _, _)
CollectAssessments(tool_pairs, raised, assessments) ==
    IF tool_pairs = <<>> THEN assessments
    ELSE LET source_tool == Head(tool_pairs)[1]
             target_tool == Head(tool_pairs)[2]
         IN  CollectAssessments(
                Tail(tool_pairs), raised,
                IF Head(tool_pairs) \in raised
                THEN assessments
                ELSE DictSet(assessments, ArrowKey(source_tool, target_tool),
                             Assessment(source_tool, target_tool)))

\* IntegrationHealthChecker.assess_complete_integration_matrix on the list
\* of tool names (each a list of parts); raised is the set of pairs whose
\* assessment raises
assess_complete_integration_matrix(tools, raised) ==
    CollectAssessments(PairsFrom(tools, 1, 1), raised, <<>>)

\* The integration record the assessment step makes of an assessment
integration_record(assessment) ==
    [source_tool |-> assessment.source_tool[1],
     target_tool |-> assessment.target_tool[1],
     status |-> assessment.status,
     integration_type |-> assessment.integration_type,
     health_score |-> assessment.health_score]

RECURSIVE AddIntegrations(_, _)
AddIntegrations(st, assessments) ==
    IF assessments = <<>> THEN st
    ELSE AddIntegrations(add_integration(st, integration_record(Head(assessments))),
                         Tail(assessments))

\* The report of analyze_integration_gaps
GapReport ==
    [analysis_summary |-> [total_gaps_identified |-> 1],
     prioritized_gaps |-> <<[gap |-> "crm-email"]>>]

execute_assessment_stage_enhanced(st, raises) ==
    IF st.current_stage # ASSESSMENT
    THEN [state |-> st, save |-> FALSE, ok |-> FALSE,
          messages |-> <<Msg("Not in Assessment stage", "", <<>>)>>]
    ELSE LET tools == [i \in 1..Len(st.tool_inventory) |->
                          Tokens(st.tool_inventory[i][1])]
             tool_pairs == PairsFrom(tools, 1, 1)
             assessments ==
                assess_complete_integration_matrix(
                    tools, IF raises THEN {tool_pairs[i] : i \in 1..Len(tool_pairs)}
                           ELSE {})
             s1 == AddIntegrations(st, DictValues(assessments))
             s2 == Merge(s1, [gap_analysis |-> GapReport])
             gate == check_stage_gate(s2, OPPORTUNITIES)
         IN  [state |-> s2, save |-> TRUE, ok |-> gate.ok,
              messages |-> gate.messages]

RECURSIVE AddOpportunities(_, _)
AddOpportunities(st, opportunities) ==
    IF opportunities = <<>> THEN st
    ELSE AddOpportunities(add_automation_opportunity(st, Head(opportunities)),
                          Tail(opportunities))

NoGapAnalysis == Msg("No gap analysis data available. Re-run Stage 2.", "", <<>>)

execute_opportunities_stage_enhanced(st, opportunities) ==
    IF st.current_stage # OPPORTUNITIES
    THEN [state |-> st, save |-> FALSE, ok |-> FALSE,
          messages |-> <<Msg("Not in Opportunities stage", "", <<>>)>>]
    ELSE IF "gap_analysis" \notin DOMAIN st
    THEN [state |-> st, save |-> FALSE, ok |-> FALSE,
          messages |-> <<NoGapAnalysis>>]
    ELSE LET s1 == AddOpportunities(st, opportunities)
             gate == check_stage_gate(s1, DELIVERY)
         IN  [state |-> s1, save |-> opportunities # <<>>, ok |-> gate.ok,
              messages |-> gate.messages]

\* What the CSV and the engines give during one complete run (the domain
\* analysis and the feature detection finding nothing)
EngineInputs ==
    [csv : CsvInputs, discovered : {<<>>}, features : {FALSE},
     raises : BOOLEAN, opportunities : OppBatches]

\* One line of the record of a run: the step, the stage it found, what it
\* returned and the stage and completion flags it left
Entry(step, before, r) ==
    [step |-> step, before |-> before.current_stage, ok |-> r.ok,
     current_stage |-> r.state.current_stage,
     stage_completion |-> r.state.stage_completion]

\* variant: with auto_advance a failed step is followed by a forced advance
run_complete_enhanced_audit_forces(st, inp, auto_advance, t) ==
    LET s1 == execute_discovery_stage(st, inp.csv, inp.discovered, inp.features, t)
        a1 == advance_stage(s1.state, ASSESSMENT, ~s1.ok)
        s2 == execute_assessment_stage_enhanced(a1.state, inp.raises)
        a2 == advance_stage(s2.state, OPPORTUNITIES, ~s2.ok)
        s3 == execute_opportunities_stage_enhanced(a2.state, inp.opportunities)
        a3 == advance_stage(s3.state, DELIVERY, ~s3.ok)
        s4 == execute_delivery_stage_enhanced(a3.state)
    IN  [state |-> s4.state, save |-> TRUE, ok |-> s4.ok,
         trace |-> << Entry("execute_discovery_stage", st, s1),
                      Entry("advance_stage", s1.state, a1),
                      Entry("execute_assessment_stage_enhanced", a1.state, s2),
                      Entry("advance_stage", s2.state, a2),
                      Entry("execute_opportunities_stage_enhanced", a2.state, s3),
                      Entry("advance_stage", s3.state, a3),
                      Entry("execute_delivery_stage_enhanced", a3.state, s4) >>]

\* A step that found the state st and returned r, and after it, when it
\* returned True, advance_stage to the next stage without force
StepThenAdvance(step, st, r, target_stage) ==
    LET a == advance_stage(r.state, target_stage, FALSE)
    IN  IF r.ok
        THEN [state |-> a.state, save |-> r.save \/ a.save, ok |-> TRUE,
              trace |-> <<Entry(step, st, r), Entry("advance_stage", r.state, a)>>]
        ELSE [state |-> r.state, save |-> r.save, ok |-> FALSE,
              trace |-> <<Entry(step, st, r)>>]

\* The run so far (done) continued by what came next
Continued(done, next) ==
    [state |-> next.state, save |-> done.save \/ next.save, ok |-> next.ok,
     trace |-> done.trace \o next.trace]

\* Stage 4 of the run: the delivery step, whose result the run returns
RunDelivery(done) ==
    LET s4 == execute_delivery_stage_enhanced(done.state)
    IN  Continued(done,
                  [state |-> s4.state, save |-> s4.save, ok |-> s4.ok,
                   trace |-> <<Entry("execute_delivery_stage_enhanced",
                                     done.state, s4)>>])

RunDeliveryOrStop(done, auto_advance) ==
    IF ~done.ok /\ ~auto_advance THEN done ELSE RunDelivery(done)

\* Stage 3 of the run
RunOpportunities(done, inp, auto_advance) ==
    IF ~done.ok /\ ~auto_advance
    THEN done
    ELSE RunDeliveryOrStop(
            Continued(done,
                StepThenAdvance("execute_opportunities_stage_enhanced", done.state,
                    execute_opportunities_stage_enhanced(done.state, inp.opportunities),
                    DELIVERY)),
            auto_advance)

\* Stage 2 of the run
RunAssessment(done, inp, auto_advance) ==
    IF ~done.ok /\ ~auto_advance
    THEN done
    ELSE RunOpportunities(
            Continued(done,
                StepThenAdvance("execute_assessment_stage_enhanced", done.state,
                    execute_assessment_stage_enhanced(done.state, inp.raises),
                    OPPORTUNITIES)),
            inp, auto_advance)

\* run_complete_enhanced_audit(csv_path, auto_advance): the four steps
\* in order, each successful step followed by advance_stage to the next stage
\* without force; a failed step ends the run when auto_advance is false
run_complete_enhanced_audit(st, inp, auto_advance, t) ==
    RunAssessment(
        StepThenAdvance("execute_discovery_stage", st,
            execute_discovery_stage(st, inp.csv, inp.discovered, inp.features, t),
            ASSESSMENT),
        inp, auto_advance)

\* A call of the pipeline on the manager: the last save of the call, if it
\* saved at all, left the file
PipelineCall(r, call) ==
    /\ IF r.save
       THEN save_state(r.state)
       ELSE /\ state' = r.state
            /\ UNCHANGED <<file, now>>
    /\ last' = call
    /\ UNCHANGED peer

ExecuteDiscoveryStage(csv, discovered, features) ==
    \E r \in {execute_discovery_stage(state, csv, discovered, features, now + 1)} :
        /\ PipelineCall(r, Call("execute_discovery_stage", 0, FALSE, r.ok, r.messages))
        /\ UNCHANGED advanced

ExecuteAssessmentStage(raises) ==
    \E r \in {execute_assessment_stage_enhanced(state, raises)} :
        /\ PipelineCall(r, Call("execute_assessment_stage_enhanced", 0, FALSE,
                                r.ok, r.messages))
        /\ UNCHANGED advanced

ExecuteOpportunitiesStage(opportunities) ==
    \E r \in {execute_opportunities_stage_enhanced(state, opportunities)} :
        /\ PipelineCall(r, Call("execute_opportunities_stage_enhanced", 0, FALSE,
                                r.ok, r.messages))
        /\ UNCHANGED advanced

RunCompleteEnhancedAudit(inp, auto_advance) ==
    \E r \in {run_complete_enhanced_audit(state, inp, auto_advance, now + 1)} :
        /\ PipelineCall(r, Call("run_complete_enhanced_audit", 0, auto_advance,
                                r.ok, r.trace))
        /\ advanced' = advanced \cup
              {r.trace[i].current_stage :
                  i \in {k \in 1..Len(r.trace) :
                            r.trace[k].step = "advance_stage" /\ r.trace[k].ok}}

\* A pipeline constructed on a new session or on a stored one
InitPipeline ==
    /\ now = StartTime
    /\ \/ /\ file = <<>>
          /\ state = NewState(StartTime)
       \/ /\ file = <<StoredSession>>
          /\ state = from_dict(json_load(StoredSession))
    /\ last = NoCall
    /\ advanced = {}
    /\ peer = NoManager

NextPipeline ==
    \/ \E csv \in CsvInputs, discovered \in DiscoveredInputs, features \in BOOLEAN :
            ExecuteDiscoveryStage(csv, discovered, features)
    \/ \E raises \in BOOLEAN : ExecuteAssessmentStage(raises)
    \/ \E opportunities \in OppBatches : ExecuteOpportunitiesStage(opportunities)
    \/ ExecuteDeliveryStage
    \/ \E inp \in EngineInputs, auto_advance \in BOOLEAN :
            RunCompleteEnhancedAudit(inp, auto_advance)
    \/ \E target_stage \in AuditStage, force \in BOOLEAN :
            AdvanceStage(target_stage, force)
    \/ LoadAuditSession

SpecPipeline == InitPipeline /\ [][NextPipeline]_vars

-----------------------------------------------------------------------------
(* IntegrationHealthChecker.assess_complete_integration_matrix on its own:  *)
(* the inventory is any list of distinct tool names, a name being free     *)
(* text (the "Tool Name" column of the inventory CSV) and so possibly      *)
(* holding the arrow that the key of an assessment is built with.          *)

MatrixNamePool ==
    << <<"A">>, <<"B", "->", "C">>, <<"A", "->", "B">>, <<"C">>, <<"B">> >>

MatrixNames == {MatrixNamePool[i] : i \in 1..MaxMatrixTools}

\* The key lists of the inventories: distinct names in any order
MatrixInventories ==
    {tools \in UNION {[1..k -> MatrixNames] : k \in 0..MaxMatrixTools} :
        \A i, j \in 1..Len(tools) : i # j => tools[i] # tools[j]}

\* The sets of pairs whose assessment raises: none or one
RaisedInputs(tools) ==
    {{}} \cup {{<<tools[i], tools[j]>>} : i, j \in 1..Len(tools)}

AssessIntegrationMatrix(raised) ==
    LET tools == [i \in 1..Len(state.tool_inventory) |-> state.tool_inventory[i][1]]
    IN  /\ last.op = "init"
        /\ last' = [op |-> "assess_complete_integration_matrix", target |-> 0,
                    force |-> FALSE, ok |-> TRUE,
                    messages |-> assess_complete_integration_matrix(tools, raised),
                    arg |-> <<tools, raised>>, error |-> "none"]
        /\ UNCHANGED <<state, file, now, advanced, peer>>

InitMatrix ==
    /\ now = StartTime
    /\ file = <<>>
    /\ \E tools \in MatrixInventories :
          state = [NewState(StartTime) EXCEPT
                      !.tool_inventory =
                          [i \in 1..Len(tools) |-> <<tools[i], CompleteTool>>]]
    /\ last = NoCall
    /\ advanced = {}
    /\ peer = NoManager

NextMatrix ==
    \E raised \in RaisedInputs([i \in 1..Len(state.tool_inventory) |->
                                    state.tool_inventory[i][1]]) :
        AssessIntegrationMatrix(raised)

SpecMatrix == InitMatrix /\ [][NextMatrix]_vars

TypeOK ==
    /\ state.current_stage \in AuditStage
    /\ now \in StartTime..(StartTime + MaxClock)
    /\ advanced \subseteq AuditStage

-----------------------------------------------------------------------------
(* Properties *)

Completion(st, n) ==
    \/ DictHas(st.stage_completion, IntKey(n)) /\ DictGet(st.stage_completion, IntKey(n))
    \/ DictHas(st.stage_completion, StrKey(n)) /\ DictGet(st.stage_completion, StrKey(n))

IsAdvance(call) == call.op = "advance_stage"

\* C1: current_stage never decreases: no successful advance leaves it at a
\* lower stage number than before, and once it is DELIVERY no operation
\* moves it to another stage.
C1_StageNeverMovesBack ==
    [][/\ state'.current_stage >= state.current_stage
       /\ state.current_stage = DELIVERY => state'.current_stage = DELIVERY]_vars

\* C2: an advance without force whose gate check fails returns failure and
\* changes no field of the AuditState (updated_at included) nor the session
\* file.
C2_FailedAdvanceChangesNothing ==
    [][\A t \in AuditStage :
        (/\ IsAdvance(last') /\ last'.target = t /\ ~last'.force
         /\ ~check_stage_gate(state, t).ok)
        => (/\ ~last'.ok
            /\ state' = state
            /\ file' = file)]_vars

C2_Witness ==
    /\ IsAdvance(last) /\ ~last.force /\ ~last.ok
    /\ file # <<>>
    /\ state.current_stage # last.target

\* C3: whenever advance returned success, current_stage equals the target,
\* stage_completion[target - 1] is true (for target > 1) and the session
\* file holds exactly the state in memory.
C3_SuccessfulAdvancePostcondition ==
    (IsAdvance(last) /\ last.ok) =>
        /\ state.current_stage = last.target
        /\ last.target > 1 =>
              /\ DictHas(state.stage_completion, IntKey(last.target - 1))
              /\ DictGet(state.stage_completion, IntKey(last.target - 1)) = TRUE
        /\ file = <<json_dump(to_dict(state))>>

C3_Witness ==
    /\ IsAdvance(last) /\ last.ok /\ ~last.force
    /\ last.target = ASSESSMENT
    /\ DictGet(state.stage_completion, IntKey(1)) = TRUE
    /\ state.current_stage = ASSESSMENT

\* C4: every successful advance takes current_stage from stage n to stage
\* n + 1; no successful advance skips a stage.
C4_AdvanceIsLinear ==
    [][(IsAdvance(last') /\ last'.ok)
        => state'.current_stage = state.current_stage + 1]_vars

\* C5: stage_completion[n] is true only if an earlier advance into stage
\* n + 1 succeeded in this session.
C5_CompletionOnlyByAdvance ==
    \A n \in AuditStage : Completion(state, n) => (n + 1) \in advanced

\* C6: a forced advance returns success for every target in every state,
\* whether or not the gate passes, and changes the state as a gate-passing
\* advance does: stage set to the target, previous stage marked complete,
\* state saved.
C6_ForcedAdvanceAlwaysSucceeds ==
    [][\A t \in AuditStage :
        (IsAdvance(last') /\ last'.target = t /\ last'.force)
        => (/\ last'.ok
            /\ state' = [MarkAdvanced(state, t) EXCEPT !.updated_at = now']
            /\ file' = <<json_dump(to_dict(state'))>>)]_vars

C6_Witness ==
    /\ IsAdvance(last) /\ last.force /\ last.ok
    /\ ~check_stage_gate(state, last.target).ok
    /\ state.current_stage = last.target

\* C7: the gate for ASSESSMENT passes iff the inventory is non-empty and
\* every tool record has category, users and discovery_method; failing on a
\* non-empty inventory it lists one issue per tool that misses a field, in
\* inventory order; on an empty inventory it reports "No tools discovered".
ToolComplete(tool_data) ==
    {"category", "users", "discovery_method"} \subseteq DOMAIN tool_data

IncompleteToolNames(st) ==
    LET bad == SelectSeq(st.tool_inventory, LAMBDA e : ~ToolComplete(e[2]))
    IN  [i \in 1..Len(bad) |-> bad[i][1]]

DiscoveryGateAsSpecified(st, gate) ==
    /\ gate.ok <=> (/\ Len(st.tool_inventory) > 0
                    /\ \A i \in 1..Len(st.tool_inventory) :
                          ToolComplete(st.tool_inventory[i][2]))
    /\ Len(st.tool_inventory) = 0 =>
          gate.messages = <<Msg("No tools discovered", "", <<>>)>>
    /\ (~gate.ok /\ Len(st.tool_inventory) > 0) =>
          [i \in 1..Len(gate.messages) |-> gate.messages[i][2]]
              = IncompleteToolNames(st)

C7_DiscoveryGate ==
    /\ DiscoveryGateAsSpecified(state, check_stage_gate(state, ASSESSMENT))
    /\ (IsAdvance(last) /\ last.target = ASSESSMENT /\ ~last.force) =>
          DiscoveryGateAsSpecified(state, [ok |-> last.ok, messages |-> last.messages])

C7_Witness ==
    /\ IsAdvance(last) /\ last.target = ASSESSMENT /\ ~last.force /\ ~last.ok
    /\ Len(state.tool_inventory) = 2
    /\ Len(last.messages) = 1

\* C8: the gate for OPPORTUNITIES passes iff the inventory holds at least 2
\* tools, at least one integration record is present and every integration
\* record has source_tool, target_tool, status and integration_type.
IntegrationComplete(integration) ==
    {"source_tool", "target_tool", "status", "integration_type"}
        \subseteq DOMAIN integration

AssessmentGateAsSpecified(st, ok) ==
    ok <=> (/\ Len(st.tool_inventory) >= 2
            /\ Len(st.integrations) >= 1
            /\ \A i \in 1..Len(st.integrations) :
                  IntegrationComplete(st.integrations[i]))

C8_AssessmentGate ==
    /\ AssessmentGateAsSpecified(state, check_stage_gate(state, OPPORTUNITIES).ok)
    /\ (IsAdvance(last) /\ last.target = OPPORTUNITIES /\ ~last.force) =>
          AssessmentGateAsSpecified(state, last.ok)

C8_Witness ==
    /\ IsAdvance(last) /\ last.target = OPPORTUNITIES /\ ~last.force /\ last.ok
    /\ Len(state.tool_inventory) = 2
    /\ Len(state.integrations) = 1

\* C9: the gate for DELIVERY passes iff there are at least 3 opportunity
\* records, each has name, priority_score, roi_estimate and n8n_workflow,
\* and every priority score is non-zero: it fails with 2 opportunities and
\* passes once a 3rd scored one is added to two well-formed, scored ones.
OppWellFormed(opp) ==
    /\ {"name", "priority_score", "roi_estimate", "n8n_workflow"} \subseteq DOMAIN opp
    /\ opp.priority_score # 0

OpportunitiesGateAsSpecified(st, ok) ==
    ok <=> (/\ Len(st.automation_opportunities) >= 3
            /\ \A i \in 1..Len(st.automation_opportunities) :
                  OppWellFormed(st.automation_opportunities[i]))

C9_OpportunitiesGate ==
    /\ OpportunitiesGateAsSpecified(state, check_stage_gate(state, DELIVERY).ok)
    /\ Len(state.automation_opportunities) = 2 =>
          ~check_stage_gate(state, DELIVERY).ok
    /\ (IsAdvance(last) /\ last.target = DELIVERY /\ ~last.force) =>
          OpportunitiesGateAsSpecified(state, last.ok)

C9_Witness ==
    /\ IsAdvance(last) /\ last.target = DELIVERY /\ ~last.force /\ last.ok
    /\ Len(state.automation_opportunities) = 3
    /\ state.current_stage = DELIVERY

\* C10: with 3 or more opportunities of which some have priority score 0 (or
\* none), an advance to DELIVERY without force fails and its "not properly
\* scored" messages name exactly those opportunities, in order, and no
\* opportunity with a non-zero score.
Unscored(opp) == "priority_score" \notin DOMAIN opp \/ opp.priority_score = 0

UnscoredNames(st) ==
    LET bad == SelectSeq(st.automation_opportunities, Unscored)
    IN  [i \in 1..Len(bad) |->
            IF "name" \in DOMAIN bad[i] THEN bad[i].name ELSE "Unknown"]

NotScoredNamed(messages) ==
    LET m == SelectSeq(messages, LAMBDA x : x[1] = "not properly scored")
    IN  [i \in 1..Len(m) |-> m[i][2]]

C10_UnscoredOpportunitiesNamed ==
    (/\ IsAdvance(last) /\ last.target = DELIVERY /\ ~last.force
     /\ Len(state.automation_opportunities) >= 3
     /\ \E i \in 1..Len(state.automation_opportunities) :
            Unscored(state.automation_opportunities[i]))
    => /\ ~last.ok
       /\ NotScoredNamed(last.messages) = UnscoredNames(state)

C10_Witness ==
    /\ IsAdvance(last) /\ last.target = DELIVERY /\ ~last.force /\ ~last.ok
    /\ Len(state.automation_opportunities) >= 3
    /\ Len(NotScoredNamed(last.messages)) = 2
    /\ \E i \in 1..Len(state.automation_opportunities) :
          ~Unscored(state.automation_opportunities[i])
    /\ \E i \in 1..Len(state.automation_opportunities) :
          "priority_score" \notin DOMAIN state.automation_opportunities[i]

MutatingOps ==
    {"add_tool", "add_integration", "add_automation_opportunity", "advance_stage"}

\* C11: after add_tool, add_integration, add_automation_opportunity and a
\* successful advance the session file is the serialization of the whole
\* state in memory, and in every state between operations the file, once
\* written, reads back as what the state in memory serializes to.
C11_FileHoldsState ==
    /\ (last.op \in MutatingOps /\ last.ok) =>
          file = <<json_dump(to_dict(state))>>
    /\ file # <<>> =>
          json_load(file[1]) = json_load(json_dump(to_dict(state)))

C11_Witness ==
    /\ last.op = "add_integration"
    /\ Len(state.integrations) >= 1
    /\ file = <<json_dump(to_dict(state))>>
    /\ state.updated_at = now

\* C12: serializing a reachable state to the session file format and
\* reading it back gives a state equal to the original in all fields,
\* the keys of stage_completion included.
C12_RoundTrip ==
    from_dict(json_load(json_dump(to_dict(state)))) = state

\* C13: every change to a field of the state in memory is made by one of the
\* manager's mutation operations (opening a session builds a new state and
\* is not counted as a change).
C13_OnlyManagerMutates ==
    [][(state' # state /\ last'.op # "load_audit_session")
        => last'.op \in MutatingOps]_vars

\* C17: a session created fresh is in DISCOVERY, has the four completion
\* entries 1..4 all false and empty inventory, integrations and
\* opportunities.
C17_FreshSession ==
    (last.op = "init" /\ file = <<>>) =>
        /\ state.current_stage = DISCOVERY
        /\ DictKeys(state.stage_completion) = {IntKey(n) : n \in 1..4}
        /\ \A n \in 1..4 : DictGet(state.stage_completion, IntKey(n)) = FALSE
        /\ Len(state.stage_completion) = 4
        /\ state.tool_inventory = <<>>
        /\ state.integrations = <<>>
        /\ state.automation_opportunities = <<>>

C17_Witness ==
    /\ last.op = "init"
    /\ file = <<>>
    /\ state.created_at = StartTime
    /\ ~check_stage_gate(state, ASSESSMENT).ok

\* C18: check_stage_gate and export_summary leave the state in memory and
\* the session file unchanged; an unmet gate is reported as the return value
\* (False, non-empty list of unmet conditions), not as an error.
C18_ReadsChangeNothing ==
    [][/\ \A t \in AuditStage :
            (last'.op = "check_stage_gate" /\ last'.target = t) =>
                /\ state' = state
                /\ file' = file
                /\ last'.error = "none"
                /\ last'.ok = check_stage_gate(state, t).ok
                /\ ~last'.ok => Len(last'.messages) >= 1
       /\ last'.op = "export_summary" =>
                /\ state' = state
                /\ file' = file
                /\ last'.error = "none"]_vars

C18_Witness ==
    /\ last.op = "check_stage_gate"
    /\ ~last.ok
    /\ Len(last.messages) >= 1
    /\ file # <<>>

\* C19: add_tool keeps tool names unique: an existing name has its record
\* replaced in place and the size is unchanged, a new name grows the
\* inventory by one; the other tools' records, the integrations, the
\* opportunities, the stage and the completion flags do not change.
C19_AddToolFrame ==
    [][last'.op = "add_tool" =>
        LET tool_name == last'.arg[1]
            tool_data == last'.arg[2]
            old == state.tool_inventory
            new == state'.tool_inventory
        IN  /\ Cardinality(DictKeys(new)) = Len(new)
            /\ DictHas(new, tool_name) /\ DictGet(new, tool_name) = tool_data
            /\ Len(new) = IF DictHas(old, tool_name) THEN Len(old) ELSE Len(old) + 1
            /\ \A i \in 1..Len(old) :
                  old[i][1] # tool_name => new[i] = old[i]
            /\ state' = [state EXCEPT !.tool_inventory = new,
                                      !.updated_at = state'.updated_at]]_vars

C19_Witness ==
    /\ last.op = "add_tool"
    /\ Len(state.tool_inventory) = 2
    /\ state.tool_inventory[1] = last.arg
    /\ state.tool_inventory[2][2] # last.arg[2]

\* C20: add_integration and add_automation_opportunity append exactly one
\* record at the end of their list on every call, also when an equal record
\* is already there; the records already present keep content and order and
\* nothing else of the state changes.
C20_AppendOnly ==
    [][/\ last'.op = "add_integration" =>
            state' = [state EXCEPT
                        !.integrations = Append(state.integrations, last'.arg[1]),
                        !.updated_at = state'.updated_at]
       /\ last'.op = "add_automation_opportunity" =>
            state' = [state EXCEPT
                        !.automation_opportunities =
                            Append(state.automation_opportunities, last'.arg[1]),
                        !.updated_at = state'.updated_at]]_vars

C20_Witness ==
    /\ last.op = "add_automation_opportunity"
    /\ Len(state.automation_opportunities) >= 2
    /\ \E i \in 1..(Len(state.automation_opportunities) - 1) :
          state.automation_opportunities[i] = last.arg[1]
    /\ state.automation_opportunities[Len(state.automation_opportunities)] = last.arg[1]

\* C14: opening a session whose file exists but does not load as an
\* AuditState surfaces an error; it never gives a manager holding a new
\* DISCOVERY state in place of the stored one.
FileMalformed ==
    /\ file # <<>>
    /\ \/ ~json_parses(file[1])
       \/ from_dict_raises(json_load(file[1]))

C14_MalformedSessionFailsLoudly ==
    (last.op \in {"load_audit_session", "open_manager"} /\ FileMalformed)
        => last.error # "none"

\* C15: a write of the session file that fails inside add_tool,
\* add_integration, add_automation_opportunity or advance_stage reaches the
\* caller as an exception: the call neither returns success nor the
\* gate-not-satisfied result.
C15_WriteFailureSurfaces ==
    [][(/\ last'.op \in MutatingOps
        /\ state' # state
        /\ file' # <<json_dump(to_dict(state'))>>)
       => (/\ last'.error = "OSError"
           /\ ~last'.ok
           /\ last'.messages = <<>>)]_vars

C15_Witness ==
    /\ last.op = "advance_stage"
    /\ last.error = "OSError"
    /\ file = <<Truncated>>
    /\ state.current_stage = last.target

\* C16: a gate failure is recoverable: from every reachable state in which
\* the gate for a target is not met there is a sequence of add_tool /
\* add_integration / add_automation_opportunity calls (here of at most
\* MaxRecovery calls) after which the gate for that target is met, so that
\* the advance without force succeeds.
RECURSIVE GateReachable(_, _, _)
GateReachable(st, target_stage, k) ==
    \/ check_stage_gate(st, target_stage).ok
    \/ /\ k > 0
       /\ \/ \E tool_name \in ToolNames, tool_data \in ToolInputs :
                GateReachable(add_tool(st, tool_name, tool_data), target_stage, k - 1)
          \/ \E integration_data \in IntegrationInputs :
                GateReachable(add_integration(st, integration_data), target_stage, k - 1)
          \/ \E opportunity_data \in OppInputs :
                GateReachable(add_automation_opportunity(st, opportunity_data),
                              target_stage, k - 1)

C16_GateFailureRecoverable ==
    \A target_stage \in AuditStage :
        ~check_stage_gate(state, target_stage).ok
            => GateReachable(state, target_stage, MaxRecovery)

\* C21: updated_at is set to the time of the call by add_tool,
\* add_integration, add_automation_opportunity and every successful advance
\* and never decreases; created_at keeps the value of session creation in
\* every step, reloading the session from its file included.
C21_Timestamps ==
    [][/\ (last'.op \in MutatingOps /\ last'.ok) =>
            /\ state'.updated_at = now'
            /\ state'.updated_at > state.updated_at
       /\ state'.updated_at >= state.updated_at
       /\ state'.created_at = state.created_at
       /\ state'.created_at \in {0, StartTime}]_vars

C21_Witness ==
    /\ last.op = "load_audit_session"
    /\ last.error = "none"
    /\ state.updated_at > StartTime
    /\ state.created_at = 0
    /\ state.updated_at = now

\* C22: constructing the manager on a session file that exists but does
\* not load raises nothing and gives a new session (DISCOVERY, nothing
\* complete, empty collections); the next mutating operation that writes
\* replaces the file by the serialization of the state in memory, so the
\* content stored before is gone.
IsFreshState(st) ==
    /\ st.current_stage = DISCOVERY
    /\ st.stage_completion = [n \in 1..4 |-> <<IntKey(n), FALSE>>]
    /\ st.tool_inventory = <<>>
    /\ st.integrations = <<>>
    /\ st.automation_opportunities = <<>>

C22_UnreadableFileReplaced ==
    /\ []((last.op \in {"init", "open_manager"} /\ FileMalformed) =>
            /\ last.error = "none"
            /\ IsFreshState(state)
            /\ state.created_at = now)
    /\ [][(FileMalformed /\ last'.op \in MutatingOps /\ last'.error = "none"
                /\ state' # state) =>
            /\ file' = <<json_dump(to_dict(state'))>>
            /\ file' # file]_vars

C22_Witness ==
    /\ last.op = "open_manager"
    /\ file = <<BadStageSession>>
    /\ IsFreshState(state)
    /\ state.created_at > StartTime

\* C23: with two managers on one audit_id every successful mutation of
\* either writes its own copy in memory over the whole file, whatever the
\* other one has written since (last writer wins): its result is computed
\* from its copy alone and is all the file holds afterwards.  A state in
\* which an integration persisted by one manager is absent from the file
\* after a mutation of the other is reachable (C23_LostUpdate).
Applied(st, call) ==
    CASE call.op = "add_tool" -> add_tool(st, call.arg[1], call.arg[2])
      [] call.op = "add_integration" -> add_integration(st, call.arg[1])
      [] call.op = "add_automation_opportunity" ->
            add_automation_opportunity(st, call.arg[1])
      [] call.op = "advance_stage" -> MarkAdvanced(st, call.target)

IsPeerCall(call) == "manager" \in DOMAIN call

C23_LastWriterWins ==
    [][(last'.op \in MutatingOps /\ last'.ok) =>
        IF IsPeerCall(last')
        THEN /\ peer' = [Applied(peer, last') EXCEPT !.updated_at = now']
             /\ file' = <<json_dump(to_dict(peer'))>>
             /\ state' = state
        ELSE /\ state' = [Applied(state, last') EXCEPT !.updated_at = now']
             /\ file' = <<json_dump(to_dict(state'))>>
             /\ peer' = peer]_vars

C23_LostUpdate ==
    /\ IsPeerCall(last) /\ last.op = "add_tool"
    /\ state.integrations # <<>>
    /\ file = <<json_dump(to_dict(peer))>>
    /\ file[1].integrations = <<>>
    /\ state.updated_at < peer.updated_at

\* C24: a stage step of the pipeline called while current_stage is not the
\* step's stage returns False and changes neither the state in memory nor
\* the session file.
StepStage(op) ==
    CASE op = "execute_discovery_stage" -> DISCOVERY
      [] op = "execute_assessment_stage_enhanced" -> ASSESSMENT
      [] op = "execute_opportunities_stage_enhanced" -> OPPORTUNITIES
      [] op = "execute_delivery_stage_enhanced" -> DELIVERY

StageSteps ==
    {"execute_discovery_stage", "execute_assessment_stage_enhanced",
     "execute_opportunities_stage_enhanced", "execute_delivery_stage_enhanced"}

C24_StepOnlyInItsStage ==
    [][(last'.op \in StageSteps /\ state.current_stage # StepStage(last'.op)) =>
        /\ ~last'.ok
        /\ state' = state
        /\ file' = file]_vars

C24_Witness ==
    /\ last.op = "execute_discovery_stage"
    /\ ~last.ok
    /\ state.current_stage = ASSESSMENT
    /\ Len(state.tool_inventory) >= 1

\* C25: in a complete run, with or without auto_advance, once the step of
\* the stage the session is in has failed, nothing later in the run changes
\* current_stage or stage_completion and the run returns False; the run
\* returns True only when, for every stage from the one the session started
\* in through DELIVERY, the step of that stage succeeded and (before
\* DELIVERY) was directly followed by a successful advance to the next stage.
StepOf(stage) == CHOOSE op \in StageSteps : StepStage(op) = stage

RunAsSpecified(trace, ok) ==
    /\ \A i \in 1..Len(trace) :
        (/\ trace[i].step \in StageSteps
         /\ trace[i].before = StepStage(trace[i].step)
         /\ ~trace[i].ok)
        => /\ ~ok
           /\ \A j \in (i + 1)..Len(trace) :
                /\ trace[j].current_stage = trace[i].current_stage
                /\ trace[j].stage_completion = trace[i].stage_completion
    /\ ok =>
        \A stage \in trace[1].before..DELIVERY :
            \E i \in 1..Len(trace) :
                /\ trace[i].step = StepOf(stage)
                /\ trace[i].before = stage
                /\ trace[i].ok
                /\ stage < DELIVERY =>
                      /\ i < Len(trace)
                      /\ trace[i + 1].step = "advance_stage"
                      /\ trace[i + 1].ok
                      /\ trace[i + 1].current_stage = stage + 1

C25_RunStopsAtFailedStage ==
    last.op = "run_complete_enhanced_audit" =>
        /\ RunAsSpecified(last.messages, last.ok)
        /\ state.current_stage = last.messages[Len(last.messages)].current_stage
        /\ state.stage_completion = last.messages[Len(last.messages)].stage_completion

C25_Witness ==
    /\ last.op = "run_complete_enhanced_audit"
    /\ last.force
    /\ ~last.ok
    /\ Len(last.messages) = 5
    /\ last.messages[1].ok /\ last.messages[2].ok
    /\ last.messages[3].before = ASSESSMENT /\ ~last.messages[3].ok
    /\ state.current_stage = ASSESSMENT

\* C26: the gap analysis that the assessment step stored in the manager's
\* state and saved is part of the stored session: a session that holds it
\* still holds it after being loaded again from its file, and loaded in
\* stage OPPORTUNITIES the opportunities step does not fail with the request
\* to re-run Stage 2.
C26_GapAnalysisSurvivesReload ==
    [][(/\ last'.op = "load_audit_session"
        /\ last'.error = "none"
        /\ "gap_analysis" \in DOMAIN state) =>
       (/\ "gap_analysis" \in DOMAIN state'
        /\ state'.gap_analysis = state.gap_analysis
        /\ state'.current_stage = OPPORTUNITIES =>
              \A opportunities \in OppBatches :
                  execute_opportunities_stage_enhanced(state', opportunities).messages
                      # <<NoGapAnalysis>>)]_vars

\* C27: in every reachable state, also after the session was saved, loaded
\* again from its file and advanced, stage_completion has exactly four
\* entries, one per stage number 1..4, so that at most 4 stages count as
\* complete.
CompletedStages(st) ==
    Cardinality({i \in 1..Len(st.stage_completion) : st.stage_completion[i][2]})

C27_FourCompletionEntries ==
    /\ Len(state.stage_completion) = 4
    /\ \A n \in 1..4 :
          Cardinality({i \in 1..Len(state.stage_completion) :
                          state.stage_completion[i][1][2] = n}) = 1
    /\ CompletedStages(state) <= 4

\* C28: in a session created new and changed only by the manager's
\* operations, whenever current_stage is a stage N > 1 the entry
\* stage_completion[N - 1] is true; and no operation of the manager takes an
\* entry of stage_completion from true to false.
CreatedFresh(st) ==
    /\ st.created_at = StartTime
    /\ DictKeys(st.stage_completion) = {IntKey(n) : n \in 1..4}

C28_PreviousStageComplete ==
    /\ [](CreatedFresh(state) =>
            (state.current_stage > 1 =>
                DictGet(state.stage_completion, IntKey(state.current_stage - 1)) = TRUE))
    /\ [][last'.op \in MutatingOps =>
            \A k \in DictKeys(state.stage_completion) :
                DictGet(state.stage_completion, k) =>
                    /\ DictHas(state'.stage_completion, k)
                    /\ DictGet(state'.stage_completion, k)]_vars

C28_Witness ==
    /\ CreatedFresh(state)
    /\ IsAdvance(last) /\ last.ok /\ last.target = ASSESSMENT
    /\ state.current_stage = ASSESSMENT
    /\ DictGet(state.stage_completion, IntKey(1)) = TRUE
    /\ DictGet(state.stage_completion, IntKey(3)) = TRUE

\* C29: when the write of the session file fails inside advance_stage,
\* add_tool, add_integration or add_automation_opportunity, the state in
\* memory is the one from before the call, so that it still agrees with the
\* file as it was last written.
C29_StateUnchangedOnWriteError ==
    [][(last'.op \in MutatingOps /\ last'.error = "OSError") =>
        /\ state' = state
        /\ (file # <<>> /\ file' = file /\ json_parses(file[1])
            /\ json_load(file[1]) = json_load(json_dump(to_dict(state))))
           => json_load(file'[1]) = json_load(json_dump(to_dict(state')))]_vars

\* C30: on an inventory of n distinct tools the integration matrix holds,
\* when no assessment raises, exactly n * (n - 1) / 2 assessments, one per
\* unordered pair of distinct tools, each found under the key of its (source,
\* target) pair; no tool is paired with itself and no pair is assessed in
\* both directions; an assessment that raises is missing and all others are
\* present.
MatrixAsSpecified(tools, raised, assessments) ==
    LET n == Len(tools)
        values == DictValues(assessments)
        Present(i, j) ==
            /\ DictHas(assessments, ArrowKey(tools[i], tools[j]))
            /\ DictGet(assessments, ArrowKey(tools[i], tools[j]))
                  = Assessment(tools[i], tools[j])
    IN  /\ raised = {} => 2 * Len(assessments) = n * (n - 1)
        /\ \A i, j \in 1..n :
              (i < j /\ <<tools[i], tools[j]>> \notin raised) => Present(i, j)
        /\ Len(assessments) =
              Cardinality({p \in {<<i, j>> : i, j \in 1..n} :
                              p[1] < p[2] /\ <<tools[p[1]], tools[p[2]]>> \notin raised})
        /\ \A k \in 1..Len(values) :
              /\ values[k].source_tool # values[k].target_tool
              /\ <<values[k].source_tool, values[k].target_tool>> \notin raised
              /\ \A m \in 1..Len(values) :
                    ~(/\ values[m].source_tool = values[k].target_tool
                      /\ values[m].target_tool = values[k].source_tool)

====
